---- MODULE Spec2Model ----
(***************************************************************************)
(* Model of gnc/navigator_controller/src/mrac_controller.py                *)
(* (class MRAC_Controller): the waypoint callback set_waypoint, the state  *)
(* update callback get_command with its estimator update, the reference    *)
(* model step increment_reference and the thruster allocator               *)
(* thruster_mapper.                                                        *)
(*                                                                         *)
(* Numbers.  The program computes in numpy float64.  The model computes in *)
(* decimal fixed point: a real quantity x is the integer round(x * S).     *)
(* Products and quotients are rounded to the nearest unit.  A non-finite   *)
(* float (NaN, or the result of 0/0) is the value NaN, which every         *)
(* arithmetic operator propagates and every ordering comparison answers    *)
(* FALSE for, as IEEE-754 does.  Angles take the values the trigonometric  *)
(* tables below resolve: multiples of an eighth of a turn for Cos and Sin, *)
(* of a quarter of a turn for Atan2.                                       *)
(***************************************************************************)
EXTENDS Integers, Sequences, FiniteSets, TLC

----------------------------------------------------------------------------
(* Fixed-point arithmetic standing for float64 *)

S == 100

\* the element of a one-element set
The(X) == CHOOSE x \in X : TRUE

NaN == -2147483647

IsNaN(a) == a = NaN

Abs(a) == IF a < 0 THEN -a ELSE a

Sgn(a) == IF a < 0 THEN -1 ELSE 1

Min2(a, b) == IF a <= b THEN a ELSE b

Max2(a, b) == IF a >= b THEN a ELSE b

\* the radix in which MulDivQR expands b: the largest of 256, 16 and 2 with
\* 2 * Radix(c) * c within 32 bits
Radix(c) == IF c <= 4194303 THEN 256 ELSE IF c <= 67108863 THEN 16 ELSE 2

\* a * b = q * c + r with 0 <= r < c, for a, b >= 0 and 0 < c, computed
\* without forming a * b: from the quotients and remainders of a and b by c
\* when c * c is within 32 bits, else digit by digit of b.
RECURSIVE MulDivQR(_, _, _)
MulDivQR(a, b, c) ==
    IF b = 0 THEN [q |-> 0, r |-> 0]
    ELSE IF c <= 46340
    THEN LET Low(p) == [q |-> (a \div c) * (b \div c) * c + (a \div c) * (b % c)
                              + (a % c) * (b \div c) + p \div c,
                        r |-> p % c]
         IN  Low((a % c) * (b % c))
    ELSE LET Carry(h, r2) == [q |-> Radix(c) * h.q + (b % Radix(c)) * (a \div c)
                                    + (r2 \div c),
                              r |-> r2 % c]
             Shift(h) == Carry(h, Radix(c) * h.r + (b % Radix(c)) * (a % c))
         IN  Shift(MulDivQR(a, b \div Radix(c), c))

\* round(a * b / c), c # 0, half away from zero
MulDiv(a, b, c) ==
    LET Round(qr) ==
            Sgn(a) * Sgn(b) * Sgn(c) * (qr.q + (IF 2 * qr.r >= Abs(c) THEN 1 ELSE 0))
    IN  Round(IF b = 0 \/ Abs(a) <= 2147483647 \div Abs(b)
              THEN [q |-> (Abs(a) * Abs(b)) \div Abs(c), r |-> (Abs(a) * Abs(b)) % Abs(c)]
              ELSE MulDivQR(Max2(Abs(a), Abs(b)), Min2(Abs(a), Abs(b)), Abs(c)))

Add(a, b) == IF IsNaN(a) \/ IsNaN(b) THEN NaN ELSE a + b

Sub(a, b) == IF IsNaN(a) \/ IsNaN(b) THEN NaN ELSE a - b

Neg(a) == IF IsNaN(a) THEN NaN ELSE -a

FAbs(a) == IF IsNaN(a) THEN NaN ELSE Abs(a)

Mul(a, b) == IF IsNaN(a) \/ IsNaN(b) THEN NaN ELSE MulDiv(a, b, S)

\* x / 0 is non-finite
Div(a, b) == IF IsNaN(a) \/ IsNaN(b) \/ b = 0 THEN NaN ELSE MulDiv(a, S, b)

\* ordering comparisons: FALSE when an operand is NaN
Gt(a, b) == ~IsNaN(a) /\ ~IsNaN(b) /\ a > b

Le(a, b) == ~IsNaN(a) /\ ~IsNaN(b) /\ a <= b

Lt(a, b) == ~IsNaN(a) /\ ~IsNaN(b) /\ a < b

\* the fixed-point value of a whole number
Fx(n) == n * S

RECURSIVE ISqrtFrom(_, _)
ISqrtFrom(n, r) == IF r * r <= n THEN r ELSE ISqrtFrom(n, (r + n \div r) \div 2)

\* floor of the square root of n >= 0 (Newton's iteration from above)
ISqrt(n) == IF n < 2 THEN n ELSE ISqrtFrom(n, Min2(n, 46340))

----------------------------------------------------------------------------
(* Vectors and matrices (numpy arrays) *)

\* np.array: the function f on 1..n as a tuple of values
array(f) == <<>> \o f

AnyNaN(v) == \E i \in DOMAIN v : IsNaN(v[i])

Finite(v) == ~AnyNaN(v)

VAdd(u, v) == array([i \in DOMAIN u |-> Add(u[i], v[i])])

VSub(u, v) == array([i \in DOMAIN u |-> Sub(u[i], v[i])])

VNeg(u) == array([i \in DOMAIN u |-> Neg(u[i])])

\* elementwise product u * v
VMul(u, v) == array([i \in DOMAIN u |-> Mul(u[i], v[i])])

\* array * scalar
VScale(u, k) == array([i \in DOMAIN u |-> Mul(u[i], k)])

\* array / scalar
VDiv(u, k) == array([i \in DOMAIN u |-> Div(u[i], k)])

\* the sum of the first n entries of f, none of them NaN
RECURSIVE SumTo(_, _)
SumTo(f, n) == IF n = 0 THEN 0 ELSE SumTo(f, n - 1) + f[n]

\* the sum of the entries of p; NaN if one of them is
Sum(p) == IF AnyNaN(p) THEN NaN ELSE SumTo(p, Len(p))

\* u.dot(v)
Dot(u, v) == Sum(VMul(u, v))

\* M.dot(v), M a tuple of rows
MatVec(M, v) == array([i \in DOMAIN M |-> Dot(M[i], v)])

\* M.T
Transpose(M) == array([j \in DOMAIN M[1] |-> array([i \in DOMAIN M |-> M[i][j]])])

\* A.dot(B)
MatMul(A, B) ==
    array([i \in DOMAIN A |-> array([j \in DOMAIN B[1] |->
        Sum(array([k \in DOMAIN B |-> Mul(A[i][k], B[k][j])]))])])

\* np.diag(d)
Diag(d) == array([i \in DOMAIN d |-> array([j \in DOMAIN d |-> IF i = j THEN d[i] ELSE 0])])

\* npl.norm of a 2-vector
Norm(v) ==
    LET Scaled(k) == k * ISqrt((Abs(v[1]) \div k) * (Abs(v[1]) \div k)
                               + (Abs(v[2]) \div k) * (Abs(v[2]) \div k))
    IN  IF AnyNaN(v) THEN NaN
        ELSE Scaled(IF Max2(Abs(v[1]), Abs(v[2])) > 30000 THEN 10 ELSE 1)

\* np.clip(a, lo, hi): minimum(maximum(a, lo), hi); NaN passes through
Clip(a, lo, hi) ==
    IF IsNaN(a) THEN NaN ELSE IF a < lo THEN lo ELSE IF a > hi THEN hi ELSE a

----------------------------------------------------------------------------
(* Angles: np.cos, np.sin, np.angle, np.deg2rad, math.atan2 *)

Pi == 314

HalfPi == 157

\* the eighth of a turn nearest to angle a, as an index 0..7
Eighth(a) == MulDiv(a, 10000, 785398) % 8

CosTab == <<100, 71, 0, -71, -100, -71, 0, 71>>

SinTab == <<0, 71, 100, 71, 0, -71, -100, -71>>

Cos(a) == IF IsNaN(a) THEN NaN ELSE CosTab[Eighth(a) + 1]

Sin(a) == IF IsNaN(a) THEN NaN ELSE SinTab[Eighth(a) + 1]

\* math.atan2(y, x), in (-pi, pi], to the nearest quarter of a turn
Atan2(y, x) ==
    IF IsNaN(y) \/ IsNaN(x) THEN NaN
    ELSE IF x = 0 /\ y = 0 THEN 0
    ELSE IF Abs(y) <= Abs(x)
         THEN (IF x > 0 THEN 0 ELSE IF y >= 0 THEN Pi ELSE -Pi)
         ELSE (IF y > 0 THEN HalfPi ELSE -HalfPi)

\* np.deg2rad(d)
Deg2Rad(d) == IF IsNaN(d) THEN NaN ELSE MulDiv(d, Pi, Fx(180))

----------------------------------------------------------------------------
(* tf.transformations, quaternions as <<x, y, z, w>> *)

\* quaternion_from_euler(0, 0, ak): <<0, 0, sin(ak/2), cos(ak/2)>>; every
\* component is a product with cos(ak/2) or sin(ak/2), so a NaN angle gives
\* four NaN.
quaternion_from_euler(ak) ==
    IF IsNaN(ak) THEN <<NaN, NaN, NaN, NaN>>
    ELSE <<0, 0, Sin(Div(ak, Fx(2))), Cos(Div(ak, Fx(2)))>>

\* quaternion_multiply(quaternion1, quaternion0)
quaternion_multiply(q1, q0) ==
    LET P(i, j) == Mul(q1[i], q0[j])
    IN  << Add(Add(Sub(Add(P(1, 4), P(2, 3)), P(3, 2)), P(4, 1)), 0),
           Add(Add(Add(Neg(P(1, 3)), P(2, 4)), P(3, 1)), P(4, 2)),
           Add(Add(Sub(P(1, 2), P(2, 1)), P(3, 4)), P(4, 3)),
           Sub(Sub(Sub(P(4, 4), P(1, 1)), P(2, 2)), P(3, 3)) >>

\* quaternion_inverse(q): quaternion_conjugate(q) / numpy.dot(q, q)
quaternion_inverse(q) ==
    LET Over(nq) ==
            <<Div(Neg(q[1]), nq), Div(Neg(q[2]), nq), Div(Neg(q[3]), nq), Div(q[4], nq)>>
    IN  Over(Dot(q, q))

Identity3 == <<<<Fx(1), 0, 0>>, <<0, Fx(1), 0>>, <<0, 0, Fx(1)>>>>

\* quaternion_matrix(q)[:3, :3]: the identity when dot(q, q) < _EPS, else
\* built from the outer product of q * sqrt(2 / dot(q, q)) with itself
quaternion_matrix(q) ==
    LET Rot(O) ==
            << << Sub(Sub(Fx(1), O[2][2]), O[3][3]),
                  Sub(O[1][2], O[3][4]),
                  Add(O[1][3], O[2][4]) >>,
               << Add(O[1][2], O[3][4]),
                  Sub(Sub(Fx(1), O[1][1]), O[3][3]),
                  Sub(O[2][3], O[1][4]) >>,
               << Sub(O[1][3], O[2][4]),
                  Add(O[2][3], O[1][4]),
                  Sub(Sub(Fx(1), O[1][1]), O[2][2]) >> >>
        Outer(nq) ==
            array([i \in 1..4 |-> array([j \in 1..4 |->
                Div(Mul(Fx(2), Mul(q[i], q[j])), nq)])])
        Matrix(nq) == IF Lt(nq, 1) THEN Identity3 ELSE The({ Rot(O) : O \in {Outer(nq)} })
    IN  The({ Matrix(nq) : nq \in {Dot(q, q)} })

\* euler_from_quaternion(q)[2], axes 'sxyz': with M = quaternion_matrix(q)
\* and cy = sqrt(M[0,0]^2 + M[1,0]^2), atan2(M[1,0], M[0,0]) if cy > _EPS,
\* else 0.0 (also when cy is NaN)
euler_yaw(q) ==
    LET Yaw(M) ==
            IF Gt(Add(Mul(M[1][1], M[1][1]), Mul(M[2][1], M[2][1])), 0)
            THEN Atan2(M[2][1], M[1][1])
            ELSE 0
    IN  The({ Yaw(M) : M \in {quaternion_matrix(q)} })

----------------------------------------------------------------------------
(* MRAC_Controller.__init__: tunables and reference model *)

kp_body == Diag(<<Fx(600), Fx(700), Fx(700)>>)

kd_body == Diag(<<Fx(650), Fx(750), Fx(750)>>)

\* 0.1 each
ki == <<10, 10, 10>>

kg == <<Fx(3), Fx(3), Fx(3), Fx(3), Fx(3)>>

\* [1.5, 0.5, 0.5]
vel_max_body == <<150, 50, 50>>

heading_threshold == 500

only_PD == TRUE

mass_ref == 300

inertia_ref == 300

thrust_max == 220

\* rows back-left, back-right, front-right, front-left; -0.0123 is -0.01
thruster_positions ==
    << <<-190, 100, -1>>, <<-190, -100, -1>>, <<160, -60, -1>>, <<160, 60, -1>> >>

\* 0.7071 is 0.71
thruster_directions ==
    << <<71, 71, 0>>, <<71, -71, 0>>, <<71, 71, 0>>, <<71, -71, 0>> >>

\* np.cross of two 3-vectors
Cross(a, b) ==
    << Sub(Mul(a[2], b[3]), Mul(a[3], b[2])),
       Sub(Mul(a[3], b[1]), Mul(a[1], b[3])),
       Sub(Mul(a[1], b[2]), Mul(a[2], b[1])) >>

lever_arms ==
    << Cross(thruster_positions[1], thruster_directions[1]),
       Cross(thruster_positions[2], thruster_directions[2]),
       Cross(thruster_positions[3], thruster_directions[3]),
       Cross(thruster_positions[4], thruster_directions[4]) >>

\* np.concatenate((thruster_directions.T, lever_arms.T)): 6 rows, 4 columns
B_body == Transpose(thruster_directions) \o Transpose(lever_arms)

Fx_max_body == MatVec(B_body, VScale(<<Fx(1), Fx(1), Fx(1), Fx(1)>>, Fx(thrust_max)))

Fy_max_body == MatVec(B_body, VScale(<<Fx(1), Fx(-1), Fx(1), Fx(-1)>>, Fx(thrust_max)))

Mz_max_body == MatVec(B_body, VScale(<<Fx(-1), Fx(1), Fx(1), Fx(-1)>>, Fx(thrust_max)))

D_body ==
    << Div(FAbs(Fx_max_body[1]), Mul(vel_max_body[1], vel_max_body[1])),
       Div(FAbs(Fy_max_body[2]), Mul(vel_max_body[2], vel_max_body[2])),
       Div(FAbs(Mz_max_body[6]), Mul(vel_max_body[3], vel_max_body[3])) >>

----------------------------------------------------------------------------
(* npl.pinv and the float64 product (a / b) * c *)

RECURSIVE GCD(_, _)
GCD(a, b) == IF b = 0 THEN a ELSE GCD(b, a % b)

\* the greatest common divisor of the entries of a 4-vector (1 for zeros)
RowGcd(r) ==
    LET NonZero(g) == IF g = 0 THEN 1 ELSE g
    IN  NonZero(GCD(GCD(Abs(r[1]), Abs(r[2])), GCD(Abs(r[3]), Abs(r[4]))))

\* the dot product of two 4-vectors as plain integers
IDot(a, b) == a[1] * b[1] + a[2] * b[2] + a[3] * b[3] + a[4] * b[4]

\* For a 3x4 matrix B of full row rank, pinv(B) = B.T (B B.T)^-1.  With
\* B = diag(g) Br (each row divided by the gcd of its entries),
\* pinv(B)[i][j] = num[i][j] / (det * g[j]), where det = det(Br Br.T) and
\* num = Br.T adj(Br Br.T), all integers; each entry is kept in lowest
\* terms.  The entries of B are fixed-point numbers, so the entries of the
\* pseudoinverse carry the factor S.
pinv(B) ==
    LET Lowest(n, d, k) == [num |-> n \div k, den |-> d \div k]
        Entry(g, Br, adj, det, i, j) ==
            The({ Lowest(n, d, GCD(Abs(n), d)) :
                      n \in {S * (Br[1][i] * adj[1][j] + Br[2][i] * adj[2][j]
                                  + Br[3][i] * adj[3][j])},
                      d \in {det * g[j]} })
        Entries(g, Br, adj, det) ==
            array([i \in 1..4 |-> array([j \in 1..3 |-> Entry(g, Br, adj, det, i, j)])])
        Adjugate(g, Br, G, adj) ==
            Entries(g, Br, adj,
                    G[1][1] * adj[1][1] + G[1][2] * adj[2][1] + G[1][3] * adj[3][1])
        Gram(g, Br, G) ==
            Adjugate(g, Br, G,
                << << G[2][2] * G[3][3] - G[2][3] * G[3][2],
                      G[1][3] * G[3][2] - G[1][2] * G[3][3],
                      G[1][2] * G[2][3] - G[1][3] * G[2][2] >>,
                   << G[2][3] * G[3][1] - G[2][1] * G[3][3],
                      G[1][1] * G[3][3] - G[1][3] * G[3][1],
                      G[1][3] * G[2][1] - G[1][1] * G[2][3] >>,
                   << G[2][1] * G[3][2] - G[2][2] * G[3][1],
                      G[1][2] * G[3][1] - G[1][1] * G[3][2],
                      G[1][1] * G[2][2] - G[1][2] * G[2][1] >> >>)
        Reduced(g, Br) ==
            Gram(g, Br, array([i \in 1..3 |-> array([j \in 1..3 |-> IDot(Br[i], Br[j])])]))
        Rows(g) ==
            Reduced(g, array([i \in 1..3 |-> array([j \in 1..4 |-> B[i][j] \div g[i]])]))
    IN  The({ Rows(g) : g \in {<<RowGcd(B[1]), RowGcd(B[2]), RowGcd(B[3])>>} })

\* pinv(B).dot(wrench): each product rounded to the nearest unit
PinvDot(P, wrench) ==
    LET T(i, j) == IF IsNaN(wrench[j]) THEN NaN
                   ELSE MulDiv(wrench[j], P[i][j].num, P[i][j].den)
    IN  array([i \in 1..4 |-> Add(Add(T(i, 1), T(i, 2)), T(i, 3))])

\* significant decimal digits carried by a float quotient
QuotDigits == 5

RECURSIVE Pow10(_)
Pow10(n) == IF n = 0 THEN 1 ELSE 10 * Pow10(n - 1)

\* the quotient a / b of two positive numbers as a float: mantissa m of
\* QuotDigits digits and exponent e, a / b ~ m / 10^e
RECURSIVE QuotFrom(_, _, _)
QuotFrom(a, b, e) ==
    LET Normal(m) ==
            IF m >= Pow10(QuotDigits - 1) THEN [m |-> m, e |-> e]
            ELSE QuotFrom(a, b, e + 1)
    IN  Normal(MulDiv(a, Pow10(e), b))

Quot(a, b) == QuotFrom(a, b, 0)

\* (a / b) * c with the quotient rounded first, then the product
QuotTimes(f, c) == IF IsNaN(c) THEN NaN ELSE MulDiv(f.m, c, Pow10(f.e))

----------------------------------------------------------------------------
(* MRAC_Controller.thruster_mapper *)

\* np.max(np.abs(command)); NaN if a component is
MaxAbs(command) ==
    IF AnyNaN(command) THEN NaN
    ELSE Max2(Max2(Abs(command[1]), Abs(command[2])),
              Max2(Abs(command[3]), Abs(command[4])))

ScaleBack(command, command_max) ==
    LET Scaled(f) == array([i \in DOMAIN command |-> QuotTimes(f, command[i])])
    IN  The({ Scaled(f) : f \in {Quot(Fx(thrust_max), command_max)} })

thruster_mapper(wrench, B) ==
    LET Limit(command, command_max) ==
            IF Gt(command_max, Fx(thrust_max))
            THEN ScaleBack(command, command_max)
            ELSE command
        Saturate(command) == Limit(command, MaxAbs(command))
        Mapped(P) == The({ Saturate(command) : command \in {PinvDot(P, wrench)} })
    IN  The({ Mapped(P) : P \in {pinv(B)} })

----------------------------------------------------------------------------
(* MRAC_Controller.set_waypoint, statement by statement.  s is the          *)
(* controller object (the fields of self), msg the Point received.          *)

\* self.p_des = np.array([msg.x, msg.y])
\* self.q_des = trns.quaternion_from_euler(0, 0, np.deg2rad(msg.z))
assign_des(s, msg) ==
    [s EXCEPT !.p_des = <<msg.x, msg.y>>,
              !.q_des = quaternion_from_euler(Deg2Rad(msg.z))]

\* self.traversal = npl.norm(self.p_des - self.position)
assign_traversal(s) == [s EXCEPT !.traversal = Norm(VSub(s.p_des, s.position))]

\* self.p_ref = self.position
reset_p_ref(s) == [s EXCEPT !.p_ref = s.position]

\* set_waypoint without line 185: the reference velocity is left as it was
keep_v_ref(s) == s

\* self.v_ref = self.lin_vel
reset_v_ref(s) == [s EXCEPT !.v_ref = s.lin_vel]

\* self.q_ref = self.orientation
reset_q_ref(s) == [s EXCEPT !.q_ref = s.orientation]

\* self.w_ref = self.ang_vel
reset_w_ref(s) == [s EXCEPT !.w_ref = s.ang_vel]

\* self.a_ref = np.array([0, 0])
reset_a_ref(s) == [s EXCEPT !.a_ref = <<0, 0>>]

\* self.aa_ref = 0
reset_aa_ref(s) == [s EXCEPT !.aa_ref = 0]

\* the PoseStamped given to des_pose_pub
des_pose(s, msg) == [position |-> <<msg.x, msg.y>>, orientation |-> s.q_des]

\* set_waypoint if it also cleared the adaptive estimates
waypoint_set_clearing_estimates(s, msg) ==
    [reset_aa_ref(reset_a_ref(reset_w_ref(reset_q_ref(reset_v_ref(
        reset_p_ref(assign_traversal(assign_des(s, msg))))))))
        EXCEPT !.dist_est = <<0, 0, 0>>, !.drag_est = <<0, 0, 0, 0, 0>>]

\* the controller object after set_waypoint(msg)
waypoint_set(s, msg) ==
    reset_aa_ref(reset_a_ref(reset_w_ref(reset_q_ref(reset_v_ref(
        reset_p_ref(assign_traversal(assign_des(s, msg))))))))

----------------------------------------------------------------------------
(* MRAC_Controller.get_command up to the estimator update.  msg is the      *)
(* Odometry received: stamp, position <<x, y>>, orientation <<x, y, z, w>>, *)
(* linear and angular body-frame twist.                                     *)

\* if self.last_odom is None: keep timestep, else the stamp difference;
\* self.last_odom = msg
assign_timestep(s, msg) ==
    [s EXCEPT !.timestep = IF s.last_odom = <<>> THEN s.timestep
                           ELSE Sub(msg.stamp, s.last_odom[1].stamp),
              !.last_odom = <<msg>>]

\* self.position, self.orientation, self.lin_vel, self.ang_vel
unpack(s, msg) ==
    LET Rotated(R) ==
            [s EXCEPT !.position = msg.position,
                      !.orientation = msg.orientation,
                      !.lin_vel = SubSeq(MatVec(R, msg.linear), 1, 2),
                      !.ang_vel = MatVec(R, msg.angular)[3]]
    IN  The({ Rotated(R) : R \in {quaternion_matrix(msg.orientation)} })

drag_regressor(lin_vel, ang_vel, y) ==
    LET Regressor(c, sn, c2, s2, h) ==
            << << Add(Mul(lin_vel[1], Mul(c, c)), Mul(Mul(lin_vel[2], sn), c)),
                  Sub(Sub(Div(lin_vel[1], h), Div(Mul(lin_vel[1], c2), h)),
                      Div(Mul(lin_vel[2], s2), h)),
                  Mul(Neg(ang_vel), sn),
                  Mul(Neg(ang_vel), c),
                  0 >>,
               << Add(Sub(Div(lin_vel[2], h), Div(Mul(lin_vel[2], c2), h)),
                      Div(Mul(lin_vel[1], s2), h)),
                  Sub(Mul(lin_vel[2], Mul(c, c)), Mul(Mul(lin_vel[1], c), sn)),
                  Mul(ang_vel, c),
                  Mul(Neg(ang_vel), sn),
                  0 >>,
               << 0,
                  0,
                  Sub(Mul(lin_vel[2], c), Mul(lin_vel[1], sn)),
                  Sub(Mul(Neg(lin_vel[1]), c), Mul(lin_vel[2], sn)),
                  ang_vel >> >>
        Angles(y2) == Regressor(Cos(y), Sin(y), Cos(y2), Sin(y2), Fx(2))
    IN  Angles(Mul(Fx(2), y))

\* R.dot(K).dot(R.T)
WorldGain(R, K) == MatMul(MatMul(R, K), Transpose(R))

\* the locals of get_command after the wrench is computed: R, err, errdot,
\* drag_regressor and wrench
feedback_law(s) ==
    LET Law(R, err, errdot, reg, pd) ==
            [R |-> R, err |-> err, errdot |-> errdot, drag_regressor |-> reg,
             wrench |-> IF only_PD THEN pd
                        ELSE VAdd(VAdd(VAdd(pd,
                                 VMul(<<s.a_ref[1], s.a_ref[2], s.aa_ref>>,
                                      <<Fx(mass_ref), Fx(mass_ref), Fx(inertia_ref)>>)),
                                 s.dist_est),
                                 MatVec(reg, s.drag_est))]
        Feedback(R, y, err, errdot) ==
            The({ Law(R, err, errdot, reg, pd) :
                      reg \in {drag_regressor(s.lin_vel, s.ang_vel, y)},
                      pd \in {VAdd(MatVec(WorldGain(R, kp_body), err),
                                   MatVec(WorldGain(R, kd_body), errdot))} })
        Errors(R, y, p_err, y_err, v_err, w_err) ==
            Feedback(R, y, <<p_err[1], p_err[2], y_err>>, <<v_err[1], v_err[2], w_err>>)
    IN  The({ Errors(R, y, p_err, y_err, v_err, w_err) :
                  R \in {quaternion_matrix(s.orientation)},
                  y \in {euler_yaw(s.orientation)},
                  p_err \in {VSub(s.p_ref, s.position)},
                  y_err \in {euler_yaw(quaternion_multiply(s.q_ref,
                                          quaternion_inverse(s.orientation)))},
                  v_err \in {VSub(s.v_ref, s.lin_vel)},
                  w_err \in {Sub(s.w_ref, s.ang_vel)} })

\* self.dist_est = self.dist_est + (self.ki * err * self.timestep)
update_dist_est(s, l) ==
    [s EXCEPT !.dist_est = VAdd(s.dist_est, VScale(VMul(ki, l.err), s.timestep))]

\* self.drag_est = self.drag_est
\*     + (self.kg * (drag_regressor.T.dot(err + errdot)) * self.timestep)
update_drag_est(s, l) ==
    [s EXCEPT !.drag_est =
        VAdd(s.drag_est,
             VScale(VMul(kg, MatVec(Transpose(l.drag_regressor), VAdd(l.err, l.errdot))),
                    s.timestep))]

\* wrench_body, negated in y and z and clipped to +-600
wrench_body(l) ==
    LET Clipped(w) ==
            << Clip(w[1], Fx(-600), Fx(600)),
               Clip(Neg(w[2]), Fx(-600), Fx(600)),
               Clip(Neg(w[3]), Fx(-600), Fx(600)) >>
    IN  Clipped(MatVec(Transpose(l.R), l.wrench))

----------------------------------------------------------------------------
(* MRAC_Controller.increment_reference *)

\* line 322 with < in place of <=
strictly_within_threshold(dist) == Lt(dist, Fx(heading_threshold))

\* if npl.norm(p_err) <= self.heading_threshold: the desired heading is the
\* target (FALSE also when the norm is NaN)
within_threshold(dist) == Le(dist, Fx(heading_threshold))

\* np.concatenate((R_ref.dot(thruster_directions.T), R_ref.dot(lever_arms.T)))
thruster_matrix(R_ref) ==
    MatMul(R_ref, Transpose(thruster_directions))
        \o MatMul(R_ref, Transpose(lever_arms))

\* The locals of increment_reference before its first assignment.  raised:
\* npl.pinv raises LinAlgError (the SVD does not converge) for a matrix with
\* a NaN entry, which ends the callback.
reference_law(s) ==
    LET Locals(raised, y_ref, y_err, dist, wrench_saturated, drag_ref) ==
            [raised |-> raised, y_ref |-> y_ref, y_err |-> y_err, dist |-> dist,
             wrench_saturated |-> wrench_saturated, drag_ref |-> drag_ref]
        Drag(R_ref, twist_body) ==
            MatVec(R_ref, VMul(VMul(D_body, twist_body),
                               <<FAbs(twist_body[1]), FAbs(twist_body[2]),
                                 FAbs(twist_body[3])>>))
        Saturated(R_ref, y_ref, y_err, dist, wrench, B) ==
            IF AnyNaN(B[1]) \/ AnyNaN(B[2]) \/ AnyNaN(B[6])
            THEN Locals(TRUE, y_ref, y_err, dist, <<0, 0, 0, 0, 0, 0>>, <<0, 0, 0>>)
            ELSE The({ Locals(FALSE, y_ref, y_err, dist, MatVec(B, command),
                              Drag(R_ref, twist_body)) :
                           command \in {thruster_mapper(wrench, <<B[1], B[2], B[6]>>)},
                           twist_body \in {MatVec(Transpose(R_ref),
                                                  <<s.v_ref[1], s.v_ref[2], s.w_ref>>)} })
        Tracking(R_ref, y_ref, p_err, y_err, dist) ==
            The({ Saturated(R_ref, y_ref, y_err, dist, wrench, B) :
                      wrench \in {VAdd(MatVec(WorldGain(R_ref, kp_body),
                                              <<p_err[1], p_err[2], y_err>>),
                                       MatVec(WorldGain(R_ref, kd_body),
                                              <<Neg(s.v_ref[1]), Neg(s.v_ref[2]),
                                                Neg(s.w_ref)>>))},
                      B \in {thruster_matrix(R_ref)} })
        Heading(R_ref, y_ref, p_err, dist) ==
            The({ Tracking(R_ref, y_ref, p_err, euler_yaw(q_err), dist) :
                      q_err \in {IF within_threshold(dist)
                                 THEN quaternion_multiply(s.q_des, quaternion_inverse(s.q_ref))
                                 ELSE quaternion_multiply(
                                          quaternion_from_euler(Atan2(p_err[2], p_err[1])),
                                          quaternion_inverse(s.q_ref))} })
        Position(R_ref, y_ref, p_err) ==
            The({ Heading(R_ref, y_ref, p_err, dist) : dist \in {Norm(p_err)} })
    IN  The({ Position(R_ref, y_ref, p_err) :
                  R_ref \in {quaternion_matrix(s.q_ref)},
                  y_ref \in {euler_yaw(s.q_ref)},
                  p_err \in {VSub(s.p_des, s.p_ref)} })

\* self.a_ref = (wrench_saturated[:2] - drag_ref[:2]) / self.mass_ref
step_a_ref(s, r) ==
    [s EXCEPT !.a_ref =
        << Div(Sub(r.wrench_saturated[1], r.drag_ref[1]), Fx(mass_ref)),
           Div(Sub(r.wrench_saturated[2], r.drag_ref[2]), Fx(mass_ref)) >>]

\* self.aa_ref = (wrench_saturated[5] - drag_ref[2]) / self.inertia_ref
step_aa_ref(s, r) ==
    [s EXCEPT !.aa_ref = Div(Sub(r.wrench_saturated[6], r.drag_ref[3]), Fx(inertia_ref))]

\* self.p_ref = self.p_ref + (self.v_ref * self.timestep)
step_p_ref(s) == [s EXCEPT !.p_ref = VAdd(s.p_ref, VScale(s.v_ref, s.timestep))]

\* self.q_ref = trns.quaternion_from_euler(0, 0, y_ref + (self.w_ref * self.timestep))
step_q_ref(s, r) ==
    [s EXCEPT !.q_ref = quaternion_from_euler(Add(r.y_ref, Mul(s.w_ref, s.timestep)))]

\* self.v_ref = self.v_ref + (self.a_ref * self.timestep)
step_v_ref(s) == [s EXCEPT !.v_ref = VAdd(s.v_ref, VScale(s.a_ref, s.timestep))]

\* self.w_ref = self.w_ref + (self.aa_ref * self.timestep)
step_w_ref(s) == [s EXCEPT !.w_ref = Add(s.w_ref, Mul(s.aa_ref, s.timestep))]

\* the controller object after increment_reference(), given its locals r
increment_reference(s, r) ==
    IF r.raised THEN s
    ELSE step_w_ref(step_v_ref(step_q_ref(step_p_ref(
             step_aa_ref(step_a_ref(s, r), r)), r)))

\* the PoseStamped given to pose_ref_pub
pose_ref(s, msg) == [stamp |-> msg.stamp, position |-> s.p_ref, orientation |-> s.q_ref]

----------------------------------------------------------------------------
(* The controller node *)

VARIABLES
    self,          \* the fields of the MRAC_Controller object
    wrench_pub,    \* last message on /wrench/autonomous, <<>> before the first
    pose_ref_pub,  \* last message on pose_ref
    des_pose_pub,  \* last message on desired_pose_ref
    gc,            \* the /odom callback thread: position in get_command, its
                   \* msg and locals (the locals of the last tick when idle)
    sw,            \* the /set_desired_pose callback thread: position in
                   \* set_waypoint, its msg and the vehicle state it has read
    reset,         \* <<sw>> of the last completed set_waypoint, until the next
                   \* evaluation of the feedback law; else <<>>
    op,            \* the callback that returned last
    steps,         \* messages received
    alloc          \* one call of thruster_mapper: arguments and result

vars == <<self, wrench_pub, pose_ref_pub, des_pose_pub, gc, sw, reset, op, steps, alloc>>

\* messages received in one run
MaxSteps == 3

Odom(stamp, position, orientation, linear, angular) ==
    [stamp |-> stamp, position |-> position, orientation |-> orientation,
     linear |-> linear, angular |-> <<0, 0, angular>>]

Yaw0 == <<0, 0, 0, Fx(1)>>

Yaw90 == <<0, 0, 71, 71>>

\* header stamps, in seconds: equal and decreasing stamps occur
Stamps == {0, 2}

\* vehicle states carried by /odom: at the origin moving ahead; 5 m east and
\* 3 m south, heading north, moving and turning; 600 m away; with a NaN
\* position; with a NaN orientation
OdomMsgs ==
    UNION { { Odom(t, <<0, 0>>, Yaw0, <<Fx(1), 0, 0>>, 0),
              Odom(t, <<Fx(5), Fx(-3)>>, Yaw90, <<Fx(1), 50, 0>>, 20),
              Odom(t, <<Fx(600), 0>>, Yaw0, <<0, 0, 0>>, 0),
              Odom(t, <<NaN, 0>>, Yaw0, <<0, 0, 0>>, 0),
              Odom(t, <<0, 0>>, <<0, 0, NaN, Fx(1)>>, <<0, 0, 0>>, 0) } : t \in Stamps }

\* waypoints on /set_desired_pose (x, y in metres, z in degrees): the origin;
\* one exactly heading_threshold away from the origin; one farther
Waypoints ==
    { [x |-> 0, y |-> 0, z |-> 0],
      [x |-> Fx(300), y |-> Fx(400), z |-> 0],
      [x |-> Fx(600), y |-> 0, z |-> Fx(90)] }

\* the object __init__ leaves
Constructed ==
    [ dist_est |-> <<0, 0, 0>>,
      drag_est |-> <<0, 0, 0, 0, 0>>,
      p_des |-> <<0, 0>>,
      q_des |-> <<Fx(1), 0, 0, 0>>,
      traversal |-> 0,
      p_ref |-> <<0, 0>>,
      v_ref |-> <<0, 0>>,
      q_ref |-> <<0, 0, 0, 0>>,
      w_ref |-> 0,
      a_ref |-> <<0, 0>>,
      aa_ref |-> 0,
      timestep |-> 2,
      position |-> <<0, 0>>,
      orientation |-> <<Fx(1), 0, 0, 0>>,
      lin_vel |-> <<0, 0>>,
      ang_vel |-> 0,
      last_odom |-> <<>> ]

NoOdom == Odom(0, <<0, 0>>, Yaw0, <<0, 0, 0>>, 0)

NoLaw ==
    [R |-> Identity3, err |-> <<0, 0, 0>>, errdot |-> <<0, 0, 0>>,
     drag_regressor |-> <<<<0, 0, 0, 0, 0>>, <<0, 0, 0, 0, 0>>, <<0, 0, 0, 0, 0>>>>,
     wrench |-> <<0, 0, 0>>]

NoRef ==
    [raised |-> FALSE, y_ref |-> 0, y_err |-> 0, dist |-> 0,
     wrench_saturated |-> <<0, 0, 0, 0, 0, 0>>, drag_ref |-> <<0, 0, 0>>]

gcIdle == [pc |-> "idle", msg |-> NoOdom, l |-> NoLaw, r |-> NoRef]

swIdle ==
    [pc |-> "idle", msg |-> [x |-> 0, y |-> 0, z |-> 0], position |-> <<0, 0>>,
     lin_vel |-> <<0, 0>>, orientation |-> <<0, 0, 0, 0>>, ang_vel |-> 0]

NoAlloc == [wrench |-> <<0, 0, 0>>, R_ref |-> Identity3, thrusts |-> <<0, 0, 0, 0>>,
            gain |-> 0, command |-> <<>>]

Init ==
    /\ self = Constructed
    /\ wrench_pub = <<>>
    /\ pose_ref_pub = <<>>
    /\ des_pose_pub = <<>>
    /\ gc = gcIdle
    /\ sw = swIdle
    /\ reset = <<>>
    /\ op = "__init__"
    /\ steps = 0
    /\ alloc = NoAlloc

----------------------------------------------------------------------------
(* Callbacks run one at a time *)

\* what set_waypoint read of the vehicle state
waypoint_read(s, msg) ==
    [pc |-> "idle", msg |-> msg, position |-> s.position, lin_vel |-> s.lin_vel,
     orientation |-> s.orientation, ang_vel |-> s.ang_vel]

set_waypoint(msg) ==
    /\ steps < MaxSteps
    /\ steps' = steps + 1
    /\ self' = waypoint_set(self, msg)
    /\ des_pose_pub' = <<des_pose(assign_des(self, msg), msg)>>
    /\ sw' = waypoint_read(self, msg)
    /\ reset' = <<sw'>>
    /\ op' = "set_waypoint"
    /\ UNCHANGED <<wrench_pub, pose_ref_pub, gc, alloc>>

\* get_command with increment_reference() called before the wrench is computed
tick_reference_first(s, msg) ==
    LET Stepped(l, e, r) == [self |-> e, l |-> l, r |-> r]
        Commanded(a, l, r) ==
            The({ Stepped(l, e, r) : e \in {update_drag_est(update_dist_est(a, l), l)} })
        Advanced(a, r) == The({ Commanded(a, l, r) : l \in {feedback_law(a)} })
        Referenced(u, r) == The({ Advanced(a, r) : a \in {increment_reference(u, r)} })
        Unpacked(u) == The({ Referenced(u, r) : r \in {reference_law(u)} })
    IN  The({ Unpacked(u) : u \in {unpack(assign_timestep(s, msg), msg)} })

\* get_command(msg) from the object s: the object it leaves and its locals
tick(s, msg) ==
    LET Stepped(l, e, r) == [self |-> increment_reference(e, r), l |-> l, r |-> r]
        Estimated(l, e) == The({ Stepped(l, e, r) : r \in {reference_law(e)} })
        Commanded(u, l) ==
            The({ Estimated(l, e) : e \in {update_drag_est(update_dist_est(u, l), l)} })
        Unpacked(u) == The({ Commanded(u, l) : l \in {feedback_law(u)} })
    IN  The({ Unpacked(u) : u \in {unpack(assign_timestep(s, msg), msg)} })

get_command(msg) ==
    /\ steps < MaxSteps
    /\ steps' = steps + 1
    /\ \E t \in {tick(self, msg)} :
           /\ self' = t.self
           /\ gc' = [pc |-> "idle", msg |-> msg, l |-> t.l, r |-> t.r]
           /\ IF t.r.raised
              THEN /\ op' = "LinAlgError"
                   /\ UNCHANGED <<wrench_pub, pose_ref_pub>>
              ELSE /\ op' = "get_command"
                   /\ wrench_pub' = <<wrench_body(t.l)>>
                   /\ pose_ref_pub' = <<pose_ref(t.self, msg)>>
    /\ reset' = <<>>
    /\ UNCHANGED <<des_pose_pub, sw, alloc>>

Next ==
    \/ \E msg \in Waypoints : set_waypoint(msg)
    \/ \E msg \in OdomMsgs : get_command(msg)

Spec == Init /\ [][Next]_vars

----------------------------------------------------------------------------
(* Callbacks on their own threads.  rospy gives each subscription a thread  *)
(* and the class holds no lock, so the statements of set_waypoint and of    *)
(* get_command interleave.  gc.pc and sw.pc name the next statement of each *)
(* callback.                                                                *)

OdomConc == { Odom(2, <<Fx(5), Fx(-3)>>, Yaw90, <<Fx(1), 50, 0>>, 20) }

WaypointsConc == { [x |-> Fx(300), y |-> Fx(400), z |-> Fx(90)] }

\* lines 213-217
gc_receive(msg) ==
    /\ gc.pc = "idle"
    /\ steps < MaxSteps
    /\ steps' = steps + 1
    /\ self' = assign_timestep(self, msg)
    /\ gc' = [gcIdle EXCEPT !.pc = "unpack", !.msg = msg]
    /\ UNCHANGED <<wrench_pub, pose_ref_pub, des_pose_pub, sw, reset, op, alloc>>

\* lines 226-235
gc_unpack ==
    /\ gc.pc = "unpack"
    /\ self' = unpack(self, gc.msg)
    /\ gc' = [gc EXCEPT !.pc = "law"]
    /\ UNCHANGED <<wrench_pub, pose_ref_pub, des_pose_pub, sw, reset, op, steps, alloc>>

\* lines 238-263: the feedback law reads the reference
gc_law ==
    /\ gc.pc = "law"
    /\ gc' = [gc EXCEPT !.pc = "dist_est", !.l = feedback_law(self)]
    /\ reset' = <<>>
    /\ UNCHANGED <<self, wrench_pub, pose_ref_pub, des_pose_pub, sw, op, steps, alloc>>

\* line 266
gc_dist_est ==
    /\ gc.pc = "dist_est"
    /\ self' = update_dist_est(self, gc.l)
    /\ gc' = [gc EXCEPT !.pc = "drag_est"]
    /\ UNCHANGED <<wrench_pub, pose_ref_pub, des_pose_pub, sw, reset, op, steps, alloc>>

\* line 267
gc_drag_est ==
    /\ gc.pc = "drag_est"
    /\ self' = update_drag_est(self, gc.l)
    /\ gc' = [gc EXCEPT !.pc = "reference"]
    /\ UNCHANGED <<wrench_pub, pose_ref_pub, des_pose_pub, sw, reset, op, steps, alloc>>

\* lines 311-342; a LinAlgError ends the callback
gc_reference ==
    /\ gc.pc = "reference"
    /\ \E r \in {reference_law(self)} :
           /\ gc' = [gc EXCEPT !.pc = IF r.raised THEN "idle" ELSE "a_ref", !.r = r]
           /\ op' = IF r.raised THEN "LinAlgError" ELSE op
    /\ UNCHANGED <<self, wrench_pub, pose_ref_pub, des_pose_pub, sw, reset, steps, alloc>>

\* line 345
gc_a_ref ==
    /\ gc.pc = "a_ref"
    /\ self' = step_a_ref(self, gc.r)
    /\ gc' = [gc EXCEPT !.pc = "aa_ref"]
    /\ UNCHANGED <<wrench_pub, pose_ref_pub, des_pose_pub, sw, reset, op, steps, alloc>>

\* line 346
gc_aa_ref ==
    /\ gc.pc = "aa_ref"
    /\ self' = step_aa_ref(self, gc.r)
    /\ gc' = [gc EXCEPT !.pc = "p_ref"]
    /\ UNCHANGED <<wrench_pub, pose_ref_pub, des_pose_pub, sw, reset, op, steps, alloc>>

\* line 347
gc_p_ref ==
    /\ gc.pc = "p_ref"
    /\ self' = step_p_ref(self)
    /\ gc' = [gc EXCEPT !.pc = "q_ref"]
    /\ UNCHANGED <<wrench_pub, pose_ref_pub, des_pose_pub, sw, reset, op, steps, alloc>>

\* line 348
gc_q_ref ==
    /\ gc.pc = "q_ref"
    /\ self' = step_q_ref(self, gc.r)
    /\ gc' = [gc EXCEPT !.pc = "v_ref"]
    /\ UNCHANGED <<wrench_pub, pose_ref_pub, des_pose_pub, sw, reset, op, steps, alloc>>

\* line 349
gc_v_ref ==
    /\ gc.pc = "v_ref"
    /\ self' = step_v_ref(self)
    /\ gc' = [gc EXCEPT !.pc = "w_ref"]
    /\ UNCHANGED <<wrench_pub, pose_ref_pub, des_pose_pub, sw, reset, op, steps, alloc>>

\* line 350
gc_w_ref ==
    /\ gc.pc = "w_ref"
    /\ self' = step_w_ref(self)
    /\ gc' = [gc EXCEPT !.pc = "publish"]
    /\ UNCHANGED <<wrench_pub, pose_ref_pub, des_pose_pub, sw, reset, op, steps, alloc>>

\* lines 271-302
gc_publish ==
    /\ gc.pc = "publish"
    /\ wrench_pub' = <<wrench_body(gc.l)>>
    /\ pose_ref_pub' = <<pose_ref(self, gc.msg)>>
    /\ gc' = [gc EXCEPT !.pc = "idle"]
    /\ op' = "get_command"
    /\ UNCHANGED <<self, des_pose_pub, sw, reset, steps, alloc>>

\* lines 181-182
sw_receive(msg) ==
    /\ sw.pc = "idle"
    /\ steps < MaxSteps
    /\ steps' = steps + 1
    /\ self' = assign_des(self, msg)
    /\ sw' = [swIdle EXCEPT !.pc = "traversal", !.msg = msg]
    /\ reset' = <<>>
    /\ UNCHANGED <<wrench_pub, pose_ref_pub, des_pose_pub, gc, op, alloc>>

\* line 183
sw_traversal ==
    /\ sw.pc = "traversal"
    /\ self' = assign_traversal(self)
    /\ sw' = [sw EXCEPT !.pc = "p_ref"]
    /\ UNCHANGED <<wrench_pub, pose_ref_pub, des_pose_pub, gc, reset, op, steps, alloc>>

\* line 184
sw_p_ref ==
    /\ sw.pc = "p_ref"
    /\ self' = reset_p_ref(self)
    /\ sw' = [sw EXCEPT !.pc = "v_ref", !.position = self.position]
    /\ UNCHANGED <<wrench_pub, pose_ref_pub, des_pose_pub, gc, reset, op, steps, alloc>>

\* line 185
sw_v_ref ==
    /\ sw.pc = "v_ref"
    /\ self' = reset_v_ref(self)
    /\ sw' = [sw EXCEPT !.pc = "q_ref", !.lin_vel = self.lin_vel]
    /\ UNCHANGED <<wrench_pub, pose_ref_pub, des_pose_pub, gc, reset, op, steps, alloc>>

\* line 186
sw_q_ref ==
    /\ sw.pc = "q_ref"
    /\ self' = reset_q_ref(self)
    /\ sw' = [sw EXCEPT !.pc = "w_ref", !.orientation = self.orientation]
    /\ UNCHANGED <<wrench_pub, pose_ref_pub, des_pose_pub, gc, reset, op, steps, alloc>>

\* line 187
sw_w_ref ==
    /\ sw.pc = "w_ref"
    /\ self' = reset_w_ref(self)
    /\ sw' = [sw EXCEPT !.pc = "a_ref", !.ang_vel = self.ang_vel]
    /\ UNCHANGED <<wrench_pub, pose_ref_pub, des_pose_pub, gc, reset, op, steps, alloc>>

\* line 188
sw_a_ref ==
    /\ sw.pc = "a_ref"
    /\ self' = reset_a_ref(self)
    /\ sw' = [sw EXCEPT !.pc = "aa_ref"]
    /\ UNCHANGED <<wrench_pub, pose_ref_pub, des_pose_pub, gc, reset, op, steps, alloc>>

\* line 189
sw_aa_ref ==
    /\ sw.pc = "aa_ref"
    /\ self' = reset_aa_ref(self)
    /\ sw' = [sw EXCEPT !.pc = "publish"]
    /\ UNCHANGED <<wrench_pub, pose_ref_pub, des_pose_pub, gc, reset, op, steps, alloc>>

\* lines 191-199; set_waypoint returns
sw_publish ==
    /\ sw.pc = "publish"
    /\ des_pose_pub' = <<des_pose(self, sw.msg)>>
    /\ sw' = [sw EXCEPT !.pc = "idle"]
    /\ reset' = <<sw'>>
    /\ op' = "set_waypoint"
    /\ UNCHANGED <<self, wrench_pub, pose_ref_pub, gc, steps, alloc>>

NextConc ==
    \/ \E msg \in OdomConc : gc_receive(msg)
    \/ gc_unpack
    \/ gc_law
    \/ gc_dist_est
    \/ gc_drag_est
    \/ gc_reference
    \/ gc_a_ref
    \/ gc_aa_ref
    \/ gc_p_ref
    \/ gc_q_ref
    \/ gc_v_ref
    \/ gc_w_ref
    \/ gc_publish
    \/ \E msg \in WaypointsConc : sw_receive(msg)
    \/ sw_traversal
    \/ sw_p_ref
    \/ sw_v_ref
    \/ sw_q_ref
    \/ sw_w_ref
    \/ sw_a_ref
    \/ sw_aa_ref
    \/ sw_publish

SpecConc == Init /\ [][NextConc]_vars

----------------------------------------------------------------------------
(* thruster_mapper on its own: one call per run *)

B_3dof(R_ref) ==
    LET Rows(B) == <<B[1], B[2], B[6]>>
    IN  Rows(thruster_matrix(R_ref))

\* thrusts of one thruster: full reverse, none, full ahead
Thrusts == {Fx(-thrust_max), 0, Fx(thrust_max)}

\* requested wrench = gain * (B_3dof . thrusts); gain 1 is inside the envelope
Gains == {1, 5, 36}

AllocInputs ==
    { [wrench |-> VScale(MatVec(B_3dof(quaternion_matrix(q)), c), Fx(g)),
       R_ref |-> quaternion_matrix(q), thrusts |-> c, gain |-> g, command |-> <<>>] :
        q \in {Yaw0, Yaw90}, c \in Thrusts \X Thrusts \X Thrusts \X Thrusts, g \in Gains }

InitAlloc ==
    /\ self = Constructed
    /\ wrench_pub = <<>>
    /\ pose_ref_pub = <<>>
    /\ des_pose_pub = <<>>
    /\ gc = gcIdle
    /\ sw = swIdle
    /\ reset = <<>>
    /\ op = "__init__"
    /\ steps = 0
    /\ alloc \in AllocInputs

allocate ==
    /\ alloc.command = <<>>
    /\ alloc' = [alloc EXCEPT !.command = <<thruster_mapper(alloc.wrench, B_3dof(alloc.R_ref))>>]
    /\ UNCHANGED <<self, wrench_pub, pose_ref_pub, des_pose_pub, gc, sw, reset, op, steps>>

NextAlloc == allocate

SpecAlloc == InitAlloc /\ [][NextAlloc]_vars

----------------------------------------------------------------------------
(* Properties *)

\* the vehicle state the last state update stored (the constructor's values
\* before the first update)
stored ==
    IF self.last_odom = <<>> THEN Constructed
    ELSE unpack(Constructed, self.last_odom[1])

\* what a completed set_waypoint, having read the vehicle state w, leaves of
\* the reference and of the desired pose
ResetTo(w) ==
    /\ self.p_ref = w.position
    /\ self.v_ref = w.lin_vel
    /\ self.q_ref = w.orientation
    /\ self.w_ref = w.ang_vel
    /\ self.a_ref = <<0, 0>>
    /\ self.aa_ref = 0
    /\ self.p_des = <<w.msg.x, w.msg.y>>
    /\ self.q_des = quaternion_from_euler(Deg2Rad(w.msg.z))

\* C1: with the two callbacks interleaved statement by statement, from the
\* return of set_waypoint until the next evaluation of the feedback law the
\* reference equals the vehicle state set_waypoint read, the reference
\* accelerations are zero and the desired pose is the commanded one.
C1_WaypointAtomic == reset # <<>> => ResetTo(reset[1])

\* C2: every set_waypoint step leaves dist_est and drag_est as they were.
C2_EstimatorUntouched ==
    [][(\E msg \in Waypoints : set_waypoint(msg))
           => /\ self'.dist_est = self.dist_est
              /\ self'.drag_est = self.drag_est]_vars

\* C2 happens: a waypoint arrives after the estimates have moved from zero
C2_Witness ==
    /\ op = "set_waypoint"
    /\ self.dist_est # <<0, 0, 0>>
    /\ self.drag_est # <<0, 0, 0, 0, 0>>

\* C3: when set_waypoint has just returned, the reference position, velocity,
\* orientation and angular velocity are those the most recent state update
\* stored (the constructor's before any update), the reference accelerations
\* are zero and the desired position is the commanded (x, y).
C3_ResetToVehicleState ==
    op = "set_waypoint" =>
        /\ self.p_ref = stored.position
        /\ self.v_ref = stored.lin_vel
        /\ self.q_ref = stored.orientation
        /\ self.w_ref = stored.ang_vel
        /\ self.a_ref = <<0, 0>>
        /\ self.aa_ref = 0
        /\ self.p_des = <<sw.msg.x, sw.msg.y>>

\* C3 happens: a waypoint off the origin arrives while the vehicle, seen by a
\* state update, is moving and turning
C3_Witness ==
    /\ op = "set_waypoint"
    /\ self.last_odom # <<>>
    /\ self.v_ref # <<0, 0>>
    /\ self.w_ref # 0
    /\ self.p_des # <<0, 0>>

\* C4: on every tick the timestep used by the estimator update and by the
\* reference step is strictly positive.
C4_TimestepPositive ==
    op \in {"get_command", "LinAlgError"} => Gt(self.timestep, 0)

\* the command thruster_mapper computes before scaling
unscaled == PinvDot(pinv(B_3dof(alloc.R_ref)), alloc.wrench)

\* C5: no component of the returned command exceeds thrust_max in absolute
\* value, and when the unscaled command's largest component exceeds
\* thrust_max the returned command's largest component is thrust_max exactly.
C5_TightSaturation ==
    alloc.command # <<>> =>
        /\ Le(MaxAbs(alloc.command[1]), Fx(thrust_max))
        /\ Gt(MaxAbs(unscaled), Fx(thrust_max))
               => MaxAbs(alloc.command[1]) = Fx(thrust_max)

\* largest difference accepted between two wrench components that are equal
\* within numerical tolerance (0.5 N)
WrenchTol == 50

\* C6: for a requested wrench that B_3dof maps some command within
\* [-thrust_max, thrust_max] to, B_3dof applied to the returned command is the
\* requested wrench.
C6_EnvelopeAchieved ==
    (alloc.command # <<>> /\ alloc.gain = 1) =>
        \A i \in 1..3 :
            Le(FAbs(Sub(MatVec(B_3dof(alloc.R_ref), alloc.command[1])[i],
                        alloc.wrench[i])),
               WrenchTol)

\* C7: every component of dist_est and drag_est is finite in every state.
C7_EstimatorFinite == Finite(self.dist_est) /\ Finite(self.drag_est)

\* the state update of the last tick carried finite values only
FiniteUpdate ==
    /\ ~IsNaN(gc.msg.stamp)
    /\ Finite(gc.msg.position)
    /\ Finite(gc.msg.orientation)
    /\ Finite(gc.msg.linear)
    /\ Finite(gc.msg.angular)

\* C8: each component of a wrench emitted for a state update with finite
\* values lies in [-600, 600].
C8_WrenchWithinBound ==
    (op = "get_command" /\ FiniteUpdate) =>
        \A i \in 1..3 :
            /\ Le(Fx(-600), wrench_pub[1][i])
            /\ Le(wrench_pub[1][i], Fx(600))

\* yaw of target * inverse(q_ref): the heading error against a target
heading_error(target) == euler_yaw(quaternion_multiply(target, quaternion_inverse(self.q_ref)))

====
